---- MODULE Spec2Model ----
(***************************************************************************)
(* Model of the katpool block-template fetcher (src/main.go).              *)
(*                                                                         *)
(* main() performs a linear startup (load .env, open and decode            *)
(* config.json, derive the payout address, parse the wait time, construct  *)
(* the kaspad RPC client, ping Redis), then starts the poll goroutine and  *)
(* itself becomes the status loop.  The two loops share currentTemplate    *)
(* under templateMutex.                                                    *)
(*                                                                         *)
(* Outcomes of calls into libraries and the network (file system, key      *)
(* derivation, kaspad RPC, json.Marshal, Redis) are nondeterministic       *)
(* choices.  strconv.Atoi is computed on the configured string, modelled   *)
(* as a sequence of one-character strings.  Durations are whole seconds;   *)
(* the int64 nanosecond product of line 132 is not modelled, so only       *)
(* small wait times are drawn.                                             *)
(***************************************************************************)
EXTENDS Integers, Sequences, FiniteSets, TLC

\* ---------------------------------------------------------------- bounds
\* Number of GetBlockTemplate calls the poll goroutine makes in the model.
MaxFetches == 3
\* Number of distinct templates the node can return.
NumTemplates == 2

\* ------------------------------------------------------------- constants
\* The nil *GetBlockTemplateResponseMessage (line 151).
NoTemplate == 0
\* Seconds the status loop sleeps per tick (line 189).
StatusInterval == 5

\* Non-nil templates the node can return.
Templates == 1..NumTemplates

\* Values of config.BlockWaitTimeSec found in config.json.
WaitTimeInputs ==
  { <<>>, <<"a", "b", "c">>, <<"1", "x">>, <<"-">>, <<"0">>, <<"+", "2">> }

\* Lengths of config.RPCServer found in config.json.
RPCServerLens == 0..1

VARIABLES
  pc,               \* position of the main goroutine
  exitStatus,       \* process exit status, meaningful when pc = "exited"
  failure,          \* the startup step that ended the process, or "none"
  BlockWaitTimeSec, \* config.BlockWaitTimeSec
  RPCServerLen,     \* len(config.RPCServer)
  num,              \* result of strconv.Atoi
  blockWaitTime,    \* ksApi.blockWaitTime, in seconds
  kaspadDialed,     \* rpcclient.NewRPCClient has been called
  redisPinged,      \* rdb.Ping has been called
  templateMutex,    \* "free", or the goroutine holding the mutex
  currentTemplate,  \* the shared cache slot
  pollPc,           \* position of the poll goroutine ("idle" before go)
  template,         \* poll goroutine local: template
  templateJSON,     \* poll goroutine local: templateJSON
  bus,              \* payloads the Redis channel has received, in order
  trace,            \* what the poll goroutine has done, in order
  emitted           \* what the current status tick has printed

vars == << pc, exitStatus, failure, BlockWaitTimeSec, RPCServerLen, num,
           blockWaitTime, kaspadDialed, redisPinged, templateMutex,
           currentTemplate, pollPc, template, templateJSON, bus, trace,
           emitted >>

startupVars == << exitStatus, failure, BlockWaitTimeSec, RPCServerLen, num,
                  blockWaitTime, kaspadDialed, redisPinged >>
pollVars == << pollPc, template, templateJSON, bus, trace >>

\* ----------------------------------------------------------- strconv.Atoi
Digits == {"0", "1", "2", "3", "4", "5", "6", "7", "8", "9"}

DigitVal(c) ==
  CASE c = "0" -> 0 [] c = "1" -> 1 [] c = "2" -> 2 [] c = "3" -> 3
    [] c = "4" -> 4 [] c = "5" -> 5 [] c = "6" -> 6 [] c = "7" -> 7
    [] c = "8" -> 8 [] c = "9" -> 9

RECURSIVE ParseDigits(_, _)
ParseDigits(s, n) ==
  IF s = <<>> THEN [err |-> FALSE, n |-> n]
  ELSE IF Head(s) \notin Digits THEN [err |-> TRUE, n |-> 0]
  ELSE ParseDigits(Tail(s), n * 10 + DigitVal(Head(s)))

\* strconv.Atoi: optional sign, then at least one decimal digit.
Atoi(s) ==
  IF s = <<>> THEN [err |-> TRUE, n |-> 0]
  ELSE LET body == IF Head(s) \in {"-", "+"} THEN Tail(s) ELSE s
       IN  IF body = <<>> THEN [err |-> TRUE, n |-> 0]
           ELSE LET r == ParseDigits(body, 0)
                IN  IF r.err THEN r
                    ELSE [err |-> FALSE,
                          n |-> IF Head(s) = "-" THEN 0 - r.n ELSE r.n]

\* json.Marshal(template) when it succeeds.
Marshal(t) == <<"json", t>>

\* ------------------------------------------------------------------ trace
Event(ev, t, ok, d) == [ev |-> ev, t |-> t, ok |-> ok, d |-> d]

FetchEv(r)      == Event("fetch", r, r # NoTemplate, 0)
SleepEv(d)      == Event("sleep", NoTemplate, TRUE, d)
CacheEv(t)      == Event("cache", t, TRUE, 0)
MarshalEv(t, ok) == Event("marshal", t, ok, 0)
PublishEv(t, ok) == Event("publish", t, ok, 0)

IsFetch(e)   == e.ev = "fetch"
IsFetchOk(e) == e.ev = "fetch" /\ e.ok
IsCache(e)   == e.ev = "cache"

NumFetches == Len(SelectSeq(trace, IsFetch))

\* ------------------------------------------------------------------- Init
Init ==
  /\ pc = "LoadEnv"
  /\ exitStatus = 0
  /\ failure = "none"
  /\ BlockWaitTimeSec = <<>>
  /\ RPCServerLen = 0
  /\ num = 0
  /\ blockWaitTime = 0
  /\ kaspadDialed = FALSE
  /\ redisPinged = FALSE
  /\ templateMutex = "free"
  /\ currentTemplate = NoTemplate
  /\ pollPc = "idle"
  /\ template = NoTemplate
  /\ templateJSON = <<>>
  /\ bus = <<>>
  /\ trace = <<>>
  /\ emitted = "none"

\* ---------------------------------------------------------------- startup
\* log.Fatalf: the process ends with status 1.
Fatal(step) ==
  /\ pc' = "exited"
  /\ exitStatus' = 1
  /\ failure' = step

\* return from main: the process ends with status 0.
ReturnFromMain(step) ==
  /\ pc' = "exited"
  /\ exitStatus' = 0
  /\ failure' = step

\* An unrecovered run-time panic: the process ends with status 2.
Panic(step) ==
  /\ pc' = "exited"
  /\ exitStatus' = 2
  /\ failure' = step

\* Lines 93-99: godotenv.Load, os.Getenv.
LoadEnv ==
  /\ pc = "LoadEnv"
  /\ \E ok \in BOOLEAN :
       IF ok THEN pc' = "OpenConfig" /\ UNCHANGED << exitStatus, failure >>
       ELSE Fatal("env")
  /\ UNCHANGED << BlockWaitTimeSec, RPCServerLen, num, blockWaitTime,
                  kaspadDialed, redisPinged, templateMutex, currentTemplate,
                  emitted >>
  /\ UNCHANGED pollVars

\* Lines 102-107: os.Open("./config.json").
OpenConfig ==
  /\ pc = "OpenConfig"
  /\ \E ok \in BOOLEAN :
       IF ok THEN pc' = "DecodeConfig" /\ UNCHANGED << exitStatus, failure >>
       ELSE ReturnFromMain("open")
  /\ UNCHANGED << BlockWaitTimeSec, RPCServerLen, num, blockWaitTime,
                  kaspadDialed, redisPinged, templateMutex, currentTemplate,
                  emitted >>
  /\ UNCHANGED pollVars

\* Lines 110-117: decoder.Decode(&config).
DecodeConfig ==
  /\ pc = "DecodeConfig"
  /\ \/ /\ ReturnFromMain("decode")
        /\ UNCHANGED << BlockWaitTimeSec, RPCServerLen >>
     \/ \E s \in WaitTimeInputs, n \in RPCServerLens :
          /\ BlockWaitTimeSec' = s
          /\ RPCServerLen' = n
          /\ pc' = "DeriveAddress"
          /\ UNCHANGED << exitStatus, failure >>
  /\ UNCHANGED << num, blockWaitTime, kaspadDialed, redisPinged,
                  templateMutex, currentTemplate, emitted >>
  /\ UNCHANGED pollVars

\* Lines 119-123: fetchKaspaAccountFromPrivateKey.
DeriveAddress ==
  /\ pc = "DeriveAddress"
  /\ \E ok \in BOOLEAN :
       IF ok THEN pc' = "ParseWaitTime" /\ UNCHANGED << exitStatus, failure >>
       ELSE Fatal("key")
  /\ UNCHANGED << BlockWaitTimeSec, RPCServerLen, num, blockWaitTime,
                  kaspadDialed, redisPinged, templateMutex, currentTemplate,
                  emitted >>
  /\ UNCHANGED pollVars

\* Variant of ParseWaitTime that ignores the error of Atoi and goes on with
\* the zero it returned.
ParseWaitTimeIgnoringError ==
  /\ pc = "ParseWaitTime"
  /\ num' = Atoi(BlockWaitTimeSec).n
  /\ pc' = "NewKaspaAPI"
  /\ UNCHANGED << exitStatus, failure >>
  /\ UNCHANGED << BlockWaitTimeSec, RPCServerLen, blockWaitTime,
                  kaspadDialed, redisPinged, templateMutex, currentTemplate,
                  emitted >>
  /\ UNCHANGED pollVars

\* Lines 126-130: strconv.Atoi(config.BlockWaitTimeSec).
ParseWaitTime ==
  /\ pc = "ParseWaitTime"
  /\ LET r == Atoi(BlockWaitTimeSec)
     IN  IF r.err
         THEN ReturnFromMain("waittime") /\ UNCHANGED num
         ELSE /\ num' = r.n
              /\ pc' = "NewKaspaAPI"
              /\ UNCHANGED << exitStatus, failure >>
  /\ UNCHANGED << BlockWaitTimeSec, RPCServerLen, blockWaitTime,
                  kaspadDialed, redisPinged, templateMutex, currentTemplate,
                  emitted >>
  /\ UNCHANGED pollVars

\* Variant of InitKaspaAPI after which the loops are started without the
\* Redis ping.
InitKaspaAPISkippingPing ==
  /\ pc = "NewKaspaAPI"
  /\ IF RPCServerLen = 0
     THEN Panic("node") /\ UNCHANGED << kaspadDialed, blockWaitTime >>
     ELSE /\ kaspadDialed' = TRUE
          /\ \E ok \in BOOLEAN :
               IF ok THEN /\ blockWaitTime' = num
                          /\ pc' = "Launch"
                          /\ UNCHANGED << exitStatus, failure >>
               ELSE Fatal("kaspad") /\ UNCHANGED blockWaitTime
  /\ UNCHANGED << BlockWaitTimeSec, RPCServerLen, num, redisPinged,
                  templateMutex, currentTemplate, emitted >>
  /\ UNCHANGED pollVars

\* Lines 132-135 and 38-50: config.RPCServer[0], NewKaspaAPI.
InitKaspaAPI ==
  /\ pc = "NewKaspaAPI"
  /\ IF RPCServerLen = 0
     THEN Panic("node") /\ UNCHANGED << kaspadDialed, blockWaitTime >>
     ELSE /\ kaspadDialed' = TRUE
          /\ \E ok \in BOOLEAN :
               IF ok THEN /\ blockWaitTime' = num
                          /\ pc' = "Ping"
                          /\ UNCHANGED << exitStatus, failure >>
               ELSE Fatal("kaspad") /\ UNCHANGED blockWaitTime
  /\ UNCHANGED << BlockWaitTimeSec, RPCServerLen, num, redisPinged,
                  templateMutex, currentTemplate, emitted >>
  /\ UNCHANGED pollVars

\* Lines 138-148: redis.NewClient, rdb.Ping.
PingRedis ==
  /\ pc = "Ping"
  /\ redisPinged' = TRUE
  /\ \E ok \in BOOLEAN :
       IF ok THEN pc' = "Launch" /\ UNCHANGED << exitStatus, failure >>
       ELSE Fatal("redis")
  /\ UNCHANGED << BlockWaitTimeSec, RPCServerLen, num, blockWaitTime,
                  kaspadDialed, templateMutex, currentTemplate, emitted >>
  /\ UNCHANGED pollVars

\* Lines 150-154 and 185: the cache is declared and the goroutine started.
Launch ==
  /\ pc = "Launch"
  /\ templateMutex' = "free"
  /\ currentTemplate' = NoTemplate
  /\ pollPc' = "GetBlockTemplate"
  /\ pc' = "StatusSleep"
  /\ UNCHANGED startupVars
  /\ UNCHANGED << template, templateJSON, bus, trace, emitted >>

\* ---------------------------------------------------------- poll goroutine
\* Variant of PollGetBlockTemplate that serializes and publishes a fetched
\* template without storing it first.
PollGetBlockTemplatePublishFirst ==
  /\ pc # "exited"
  /\ pollPc = "GetBlockTemplate"
  /\ NumFetches < MaxFetches
  /\ \E r \in Templates \cup {NoTemplate} :
       /\ trace' = Append(trace, FetchEv(r))
       /\ template' = r
       /\ pollPc' = IF r = NoTemplate THEN "SleepErr" ELSE "Marshal"
  /\ UNCHANGED << pc, templateMutex, currentTemplate, templateJSON, bus,
                  emitted >>
  /\ UNCHANGED startupVars

\* Variant of PollGetBlockTemplate that puts the result into the cache
\* before looking at the error.
PollGetBlockTemplateStoresResult ==
  /\ pc # "exited"
  /\ pollPc = "GetBlockTemplate"
  /\ NumFetches < MaxFetches
  /\ \E r \in Templates \cup {NoTemplate} :
       /\ trace' = Append(trace, FetchEv(r))
       /\ template' = r
       /\ currentTemplate' = r
       /\ pollPc' = IF r = NoTemplate THEN "SleepErr" ELSE "Lock"
  /\ UNCHANGED << pc, templateMutex, templateJSON, bus, emitted >>
  /\ UNCHANGED startupVars

\* Lines 156-161: ksApi.GetBlockTemplate(address); on error the goroutine
\* logs and goes to the sleep of line 159.
PollGetBlockTemplate ==
  /\ pc # "exited"
  /\ pollPc = "GetBlockTemplate"
  /\ NumFetches < MaxFetches
  /\ \E r \in Templates \cup {NoTemplate} :
       /\ trace' = Append(trace, FetchEv(r))
       /\ template' = r
       /\ pollPc' = IF r = NoTemplate THEN "SleepErr" ELSE "Lock"
  /\ UNCHANGED << pc, templateMutex, currentTemplate, templateJSON, bus,
                  emitted >>
  /\ UNCHANGED startupVars

\* Variant of PollSleepErr that backs off: it sleeps twice the interval.
PollSleepErrBackoff ==
  /\ pc # "exited"
  /\ pollPc = "SleepErr"
  /\ trace' = Append(trace, SleepEv(2 * blockWaitTime))
  /\ pollPc' = "GetBlockTemplate"
  /\ UNCHANGED << pc, templateMutex, currentTemplate, template,
                  templateJSON, bus, emitted >>
  /\ UNCHANGED startupVars

\* Lines 159-160: time.Sleep(ksApi.blockWaitTime); continue.
PollSleepErr ==
  /\ pc # "exited"
  /\ pollPc = "SleepErr"
  /\ trace' = Append(trace, SleepEv(blockWaitTime))
  /\ pollPc' = "GetBlockTemplate"
  /\ UNCHANGED << pc, templateMutex, currentTemplate, template,
                  templateJSON, bus, emitted >>
  /\ UNCHANGED startupVars

\* Variant of PollLock that takes the mutex whoever holds it.
PollLockNoWait ==
  /\ pc # "exited"
  /\ pollPc = "Lock"
  /\ templateMutex' = "poll"
  /\ pollPc' = "Store"
  /\ UNCHANGED << pc, currentTemplate, template, templateJSON, bus, trace,
                  emitted >>
  /\ UNCHANGED startupVars

\* Line 164: templateMutex.Lock().
PollLock ==
  /\ pc # "exited"
  /\ pollPc = "Lock"
  /\ templateMutex = "free"
  /\ templateMutex' = "poll"
  /\ pollPc' = "Store"
  /\ UNCHANGED << pc, currentTemplate, template, templateJSON, bus, trace,
                  emitted >>
  /\ UNCHANGED startupVars

\* Variant of PollStore that fills the slot only while it is empty.
PollStoreOnce ==
  /\ pc # "exited"
  /\ pollPc = "Store"
  /\ currentTemplate' = IF currentTemplate = NoTemplate THEN template
                        ELSE currentTemplate
  /\ trace' = Append(trace, CacheEv(template))
  /\ pollPc' = "Unlock"
  /\ UNCHANGED << pc, templateMutex, template, templateJSON, bus, emitted >>
  /\ UNCHANGED startupVars

\* Line 165: currentTemplate = template.
PollStore ==
  /\ pc # "exited"
  /\ pollPc = "Store"
  /\ currentTemplate' = template
  /\ trace' = Append(trace, CacheEv(template))
  /\ pollPc' = "Unlock"
  /\ UNCHANGED << pc, templateMutex, template, templateJSON, bus, emitted >>
  /\ UNCHANGED startupVars

\* Variant of PollUnlock that leaves the mutex locked.
PollUnlockMissing ==
  /\ pc # "exited"
  /\ pollPc = "Unlock"
  /\ pollPc' = "Marshal"
  /\ UNCHANGED << pc, templateMutex, currentTemplate, template,
                  templateJSON, bus, trace, emitted >>
  /\ UNCHANGED startupVars

\* Line 166: templateMutex.Unlock().
PollUnlock ==
  /\ pc # "exited"
  /\ pollPc = "Unlock"
  /\ templateMutex' = "free"
  /\ pollPc' = "Marshal"
  /\ UNCHANGED << pc, currentTemplate, template, templateJSON, bus, trace,
                  emitted >>
  /\ UNCHANGED startupVars

\* Variant of PollMarshal that keeps a buffer it has already filled.
PollMarshalStale ==
  /\ pc # "exited"
  /\ pollPc = "Marshal"
  /\ \E ok \in BOOLEAN :
       /\ trace' = Append(trace, MarshalEv(template, ok))
       /\ IF ok THEN /\ templateJSON' = IF templateJSON = <<>>
                                        THEN Marshal(template)
                                        ELSE templateJSON
                     /\ pollPc' = "Publish"
          ELSE /\ templateJSON' = templateJSON
               /\ pollPc' = "GetBlockTemplate"
  /\ UNCHANGED << pc, templateMutex, currentTemplate, template, bus,
                  emitted >>
  /\ UNCHANGED startupVars

\* Lines 169-173: json.Marshal(template); on error the goroutine logs and
\* continues with the next iteration.
PollMarshal ==
  /\ pc # "exited"
  /\ pollPc = "Marshal"
  /\ \E ok \in BOOLEAN :
       /\ trace' = Append(trace, MarshalEv(template, ok))
       /\ IF ok THEN /\ templateJSON' = Marshal(template)
                     /\ pollPc' = "Publish"
          ELSE /\ templateJSON' = <<>>
               /\ pollPc' = "GetBlockTemplate"
  /\ UNCHANGED << pc, templateMutex, currentTemplate, template, bus,
                  emitted >>
  /\ UNCHANGED startupVars

\* Variant of PollPublish that clears the cache when the publish fails.
PollPublishRollback ==
  /\ pc # "exited"
  /\ pollPc = "Publish"
  /\ \E ok \in BOOLEAN :
       /\ trace' = Append(trace, PublishEv(template, ok))
       /\ bus' = IF ok THEN Append(bus, templateJSON) ELSE bus
       /\ currentTemplate' = IF ok THEN currentTemplate ELSE NoTemplate
  /\ pollPc' = "Sleep"
  /\ UNCHANGED << pc, templateMutex, template, templateJSON, emitted >>
  /\ UNCHANGED startupVars

\* Variant of PollPublish in which the newest payload overtakes the older
\* ones on the bus.
PollPublishReordered ==
  /\ pc # "exited"
  /\ pollPc = "Publish"
  /\ \E ok \in BOOLEAN :
       /\ trace' = Append(trace, PublishEv(template, ok))
       /\ bus' = IF ok THEN <<templateJSON>> \o bus ELSE bus
  /\ pollPc' = "Sleep"
  /\ UNCHANGED << pc, templateMutex, currentTemplate, template,
                  templateJSON, emitted >>
  /\ UNCHANGED startupVars

\* Variant of PollPublish that treats a publish error as fatal (log.Fatalf).
PollPublishFatal ==
  /\ pc # "exited"
  /\ pollPc = "Publish"
  /\ \E ok \in BOOLEAN :
       /\ trace' = Append(trace, PublishEv(template, ok))
       /\ bus' = IF ok THEN Append(bus, templateJSON) ELSE bus
       /\ IF ok THEN UNCHANGED << pc, exitStatus, failure >>
          ELSE Fatal("publish")
  /\ pollPc' = "Sleep"
  /\ UNCHANGED << BlockWaitTimeSec, RPCServerLen, num, blockWaitTime,
                  kaspadDialed, redisPinged >>
  /\ UNCHANGED << templateMutex, currentTemplate, template,
                  templateJSON, emitted >>

\* Lines 176-181: rdb.Publish(ctx, config.RedisChannel, templateJSON).
PollPublish ==
  /\ pc # "exited"
  /\ pollPc = "Publish"
  /\ \E ok \in BOOLEAN :
       /\ trace' = Append(trace, PublishEv(template, ok))
       /\ bus' = IF ok THEN Append(bus, templateJSON) ELSE bus
  /\ pollPc' = "Sleep"
  /\ UNCHANGED << pc, templateMutex, currentTemplate, template,
                  templateJSON, emitted >>
  /\ UNCHANGED startupVars

\* Line 183: time.Sleep(ksApi.blockWaitTime).
PollSleep ==
  /\ pc # "exited"
  /\ pollPc = "Sleep"
  /\ trace' = Append(trace, SleepEv(blockWaitTime))
  /\ pollPc' = "GetBlockTemplate"
  /\ UNCHANGED << pc, templateMutex, currentTemplate, template,
                  templateJSON, bus, emitted >>
  /\ UNCHANGED startupVars

\* ------------------------------------------------------------ status loop
\* Line 189: time.Sleep(5 * time.Second).
StatusSleep ==
  /\ pc = "StatusSleep"
  /\ pc' = "StatusLock"
  /\ emitted' = "none"
  /\ UNCHANGED << templateMutex, currentTemplate >>
  /\ UNCHANGED startupVars
  /\ UNCHANGED pollVars

\* Variant of StatusLock that does not wait for the mutex to be free.
StatusLockNoWait ==
  /\ pc = "StatusLock"
  /\ templateMutex' = "status"
  /\ pc' = "StatusCheck"
  /\ UNCHANGED << currentTemplate, emitted >>
  /\ UNCHANGED startupVars
  /\ UNCHANGED pollVars

\* Line 191: templateMutex.Lock().
StatusLock ==
  /\ pc = "StatusLock"
  /\ templateMutex = "free"
  /\ templateMutex' = "status"
  /\ pc' = "StatusCheck"
  /\ UNCHANGED << currentTemplate, emitted >>
  /\ UNCHANGED startupVars
  /\ UNCHANGED pollVars

\* Variant of StatusCheck that empties the slot after reading it.
StatusCheckConsuming ==
  /\ pc = "StatusCheck"
  /\ emitted' = IF currentTemplate # NoTemplate THEN "none"
                ELSE "No block template fetched yet."
  /\ currentTemplate' = NoTemplate
  /\ pc' = "StatusUnlock"
  /\ UNCHANGED templateMutex
  /\ UNCHANGED startupVars
  /\ UNCHANGED pollVars

\* Lines 192-221: the populated branch is empty (its Printf is commented
\* out); the nil branch prints "No block template fetched yet.".
StatusCheck ==
  /\ pc = "StatusCheck"
  /\ emitted' = IF currentTemplate # NoTemplate THEN "none"
                ELSE "No block template fetched yet."
  /\ pc' = "StatusUnlock"
  /\ UNCHANGED << templateMutex, currentTemplate >>
  /\ UNCHANGED startupVars
  /\ UNCHANGED pollVars

\* Variant of StatusUnlock that goes back to sleep with the mutex locked.
StatusUnlockMissing ==
  /\ pc = "StatusUnlock"
  /\ pc' = "StatusSleep"
  /\ UNCHANGED << templateMutex, currentTemplate, emitted >>
  /\ UNCHANGED startupVars
  /\ UNCHANGED pollVars

\* Line 222: templateMutex.Unlock().
StatusUnlock ==
  /\ pc = "StatusUnlock"
  /\ templateMutex' = "free"
  /\ pc' = "StatusSleep"
  /\ UNCHANGED << currentTemplate, emitted >>
  /\ UNCHANGED startupVars
  /\ UNCHANGED pollVars

\* ------------------------------------------------------------------- Next
Next ==
  \/ LoadEnv
  \/ OpenConfig
  \/ DecodeConfig
  \/ DeriveAddress
  \/ ParseWaitTime
  \/ InitKaspaAPI
  \/ PingRedis
  \/ Launch
  \/ PollGetBlockTemplate
  \/ PollSleepErr
  \/ PollLock
  \/ PollStore
  \/ PollUnlock
  \/ PollMarshal
  \/ PollPublish
  \/ PollSleep
  \/ StatusSleep
  \/ StatusLock
  \/ StatusCheck
  \/ StatusUnlock

Spec == Init /\ [][Next]_vars

\* The Go scheduler is preemptive, so a goroutine that can take a step
\* eventually takes it; sync.Mutex hands the lock to a waiter that keeps
\* finding it taken (starvation mode), hence strong fairness on Lock.
FairSpec ==
  /\ Spec
  /\ WF_vars(PollGetBlockTemplate)
  /\ WF_vars(PollSleepErr)
  /\ SF_vars(PollLock)
  /\ WF_vars(PollStore)
  /\ WF_vars(PollUnlock)
  /\ WF_vars(PollMarshal)
  /\ WF_vars(PollPublish)
  /\ WF_vars(PollSleep)
  /\ WF_vars(StatusSleep)
  /\ SF_vars(StatusLock)
  /\ WF_vars(StatusCheck)
  /\ WF_vars(StatusUnlock)

TypeOK ==
  /\ pc \in {"LoadEnv", "OpenConfig", "DecodeConfig", "DeriveAddress",
             "ParseWaitTime", "NewKaspaAPI", "Ping", "Launch",
             "StatusSleep", "StatusLock", "StatusCheck", "StatusUnlock",
             "exited"}
  /\ pollPc \in {"idle", "GetBlockTemplate", "SleepErr", "Lock", "Store",
                 "Unlock", "Marshal", "Publish", "Sleep"}
  /\ templateMutex \in {"free", "poll", "status"}
  /\ currentTemplate \in Templates \cup {NoTemplate}
  /\ template \in Templates \cup {NoTemplate}
  /\ exitStatus \in 0..2

\* ---------------------------------------------------------- trace helpers
IsSleep(e)   == e.ev = "sleep"
IsAttempt(e) == e.ev \in {"marshal", "publish"}

\* Successful GetBlockTemplate calls, and completed cache writes, in order.
FetchedOk == SelectSeq(trace, IsFetchOk)
Cached    == SelectSeq(trace, IsCache)

FetchIdx == {i \in DOMAIN trace : IsFetch(trace[i])}
CacheIdx == {i \in DOMAIN trace : IsCache(trace[i])}

\* Index of the GetBlockTemplate call that opened the current cycle.
LastFetchIdx ==
  IF FetchIdx = {} THEN 0
  ELSE CHOOSE i \in FetchIdx : \A j \in FetchIdx : j <= i

FirstCacheIdx == CHOOSE i \in CacheIdx : \A j \in CacheIdx : i <= j

LastEv == trace[Len(trace)]

Launched == pollPc # "idle"

\* ------------------------------------------------------------------ claims

\* C1: the cache is empty while no successful fetch has been cached, and
\* otherwise holds the template of the most recent successful
\* GetBlockTemplate call whose cache write has completed; a fetched template
\* is uncached only while the goroutine is between the call and the write;
\* publish outcomes do not matter; once set the slot never becomes empty.
C1_CacheHolds ==
  LET k == Len(Cached)
      n == Len(FetchedOk)
  IN  /\ k \in {n, n - 1}
      /\ k >= 0
      /\ pollPc \notin {"Lock", "Store"} => k = n
      /\ currentTemplate = IF k = 0 THEN NoTemplate ELSE FetchedOk[k].t

C1_CacheFreshness ==
  /\ []C1_CacheHolds
  /\ [][currentTemplate # NoTemplate => currentTemplate' # NoTemplate]_vars

C1_Witness ==
  /\ Len(Cached) = 2
  /\ FetchedOk[1].t # FetchedOk[2].t
  /\ currentTemplate = FetchedOk[2].t
  /\ \E i \in DOMAIN trace : IsAttempt(trace[i]) /\ ~trace[i].ok

\* C2: once json.Marshal or Publish has failed for the template of the
\* current cycle, the cache holds that template (until the next fetch).
C2_PublishFailureIsolation ==
  LET f == LastFetchIdx
  IN  \A i \in DOMAIN trace :
        (i > f /\ IsAttempt(trace[i]) /\ ~trace[i].ok) =>
          /\ f > 0
          /\ trace[f].ok
          /\ trace[i].t = trace[f].t
          /\ currentTemplate = trace[f].t

C2_Witness ==
  /\ trace # <<>>
  /\ LastEv = PublishEv(currentTemplate, FALSE)
  /\ currentTemplate # NoTemplate
  /\ Len(FetchedOk) = 2
  /\ FetchedOk[1].t # currentTemplate

\* C3: between two consecutive GetBlockTemplate calls there is exactly one
\* sleep, of the configured interval, whatever the earlier cycle's outcome.
C3_UniformSleep ==
  \A i, j \in FetchIdx :
    (i < j /\ \A m \in FetchIdx : ~(i < m /\ m < j)) =>
      /\ Cardinality({m \in (i + 1)..(j - 1) : IsSleep(trace[m])}) = 1
      /\ \A m \in (i + 1)..(j - 1) :
           IsSleep(trace[m]) => trace[m].d = blockWaitTime

\* C4: every failed GetBlockTemplate call is followed by exactly one sleep
\* of the configured interval and then by the next call; the goroutine is
\* still running after any number of failures; and when the first success
\* is cached after N failures, what went before is exactly N times
\* (failed call, sleep) and then the successful call.
C4_RetryPolicy ==
  /\ \A i \in DOMAIN trace :
       (IsFetch(trace[i]) /\ ~trace[i].ok) =>
         /\ pc # "exited"
         /\ i = Len(trace) => pollPc = "SleepErr"
         /\ i < Len(trace) => trace[i + 1] = SleepEv(blockWaitTime)
         /\ i + 1 = Len(trace) => pollPc = "GetBlockTemplate"
         /\ i + 1 < Len(trace) => IsFetch(trace[i + 2])
  /\ CacheIdx # {} =>
       LET c == FirstCacheIdx
           N == Cardinality({i \in 1..c : IsFetch(trace[i]) /\ ~trace[i].ok})
       IN  /\ c = 2 * N + 2
           /\ \A m \in 1..N : /\ trace[2 * m - 1] = FetchEv(NoTemplate)
                              /\ trace[2 * m] = SleepEv(blockWaitTime)
           /\ IsFetchOk(trace[c - 1])
           /\ trace[c] = CacheEv(trace[c - 1].t)

C4_Witness ==
  /\ CacheIdx # {}
  /\ FirstCacheIdx = 6
  /\ currentTemplate # NoTemplate
  /\ blockWaitTime = 2

\* C5: when every call, serialization and publish so far has succeeded and
\* the current cycle is finished, the bus holds the serializations of the
\* fetched templates in fetch order and the cache holds the last of them.
AllSucceeded == \A i \in DOMAIN trace : trace[i].ok

CycleFinished == trace # <<>> /\ LastEv.ev \in {"publish", "sleep"}

C5_EndToEndOrdering ==
  (AllSucceeded /\ CycleFinished) =>
    /\ Len(bus) = Len(FetchedOk)
    /\ \A i \in DOMAIN bus : bus[i] = Marshal(FetchedOk[i].t)
    /\ currentTemplate = FetchedOk[Len(FetchedOk)].t

C5_Witness ==
  /\ AllSucceeded
  /\ CycleFinished
  /\ Len(FetchedOk) = 2
  /\ bus = <<Marshal(2), Marshal(1)>>
  /\ currentTemplate = 1

\* C6: while the goroutine is serializing or publishing, the cache already
\* holds the template of this cycle and the goroutine does not hold the
\* mutex; every serialization or publish attempt comes after the cache
\* write of the same template in the same cycle.
C6_CacheBeforePublish ==
  /\ pollPc \in {"Marshal", "Publish"} =>
       /\ template # NoTemplate
       /\ currentTemplate = template
       /\ templateMutex # "poll"
  /\ \A i \in DOMAIN trace :
       IsAttempt(trace[i]) =>
         \E j \in 1..(i - 1) :
           /\ trace[j] = CacheEv(trace[i].t)
           /\ \A m \in j..i : ~IsFetch(trace[m])

C6_Witness ==
  /\ pollPc = "Marshal"
  /\ pc = "StatusCheck"
  /\ currentTemplate = template
  /\ Len(Cached) = 2
  /\ Cached[1].t # template

\* C7: once the loops are started, the process never exits and the poll
\* goroutine stays in its loop, whatever fails, and from every point it
\* comes back to the GetBlockTemplate call.
C7_SteadyStateNonFatal ==
  /\ [](Launched => /\ pc \in {"StatusSleep", "StatusLock", "StatusCheck",
                               "StatusUnlock"}
                    /\ pollPc \in {"GetBlockTemplate", "SleepErr", "Lock",
                                   "Store", "Unlock", "Marshal", "Publish",
                                   "Sleep"})
  /\ [](Launched => <>(pollPc = "GetBlockTemplate"))

C7_Witness ==
  /\ pollPc = "GetBlockTemplate"
  /\ \E i \in DOMAIN trace : IsFetch(trace[i]) /\ ~trace[i].ok
  /\ \E i \in DOMAIN trace : trace[i].ev = "marshal" /\ ~trace[i].ok
  /\ \E i \in DOMAIN trace : trace[i].ev = "publish" /\ ~trace[i].ok

\* C8: a startup failure (config file missing or undecodable, invalid
\* private key, invalid wait time, unreachable bus) ends the process with a
\* non-zero status before the loops are started.
C8_FatalStartupNonZero ==
  (pc = "exited" /\ failure \in {"open", "decode", "key", "waittime",
                                 "redis"}) =>
    /\ exitStatus # 0
    /\ pollPc = "idle"

\* C9: with a non-numeric block_wait_time_seconds the process gets no
\* further than the Atoi call: it exits there (or earlier, on the private
\* key), the kaspad client is never constructed, Redis is never pinged, and
\* nothing is fetched or published.
ConfigDecoded ==
  /\ pc \notin {"LoadEnv", "OpenConfig", "DecodeConfig"}
  /\ failure \notin {"env", "open", "decode"}

C9_NonNumericStopsBeforeNetwork ==
  (ConfigDecoded /\ Atoi(BlockWaitTimeSec).err) =>
    /\ pc \in {"DeriveAddress", "ParseWaitTime", "exited"}
    /\ pc = "exited" => failure \in {"key", "waittime"}
    /\ ~kaspadDialed
    /\ ~redisPinged
    /\ pollPc = "idle"
    /\ trace = <<>>
    /\ bus = <<>>

C9_Witness ==
  /\ BlockWaitTimeSec = <<"a", "b", "c">>
  /\ pc = "exited"
  /\ failure = "waittime"

\* C10: the poll loop never runs with a wait interval of zero or less.
C10_PositiveInterval ==
  Launched => blockWaitTime > 0

\* How far main has come: the number of the startup step it is at, or at
\* which it ended the process; 9 is the status loop.
StageOfPc(p) ==
  CASE p = "LoadEnv" -> 1 [] p = "OpenConfig" -> 2 [] p = "DecodeConfig" -> 3
    [] p = "DeriveAddress" -> 4 [] p = "ParseWaitTime" -> 5
    [] p = "NewKaspaAPI" -> 6 [] p = "Ping" -> 7 [] p = "Launch" -> 8
    [] OTHER -> 9

StageOfFailure(f) ==
  CASE f = "env" -> 1 [] f = "open" -> 2 [] f = "decode" -> 3
    [] f = "key" -> 4 [] f = "waittime" -> 5 [] f = "node" -> 6
    [] f = "kaspad" -> 6 [] f = "redis" -> 7

Stage == IF pc = "exited" THEN StageOfFailure(failure) ELSE StageOfPc(pc)

\* C11: main goes through load configuration, derive address, parse wait
\* time, construct the kaspad client, ping Redis, declare the empty cache
\* and start the loops, one after the other; the client is constructed only
\* after the address is derived, the ping comes only after the client, the
\* loops start only after a successful ping, nothing is fetched or
\* published before that, and a failed ping ends the process with neither
\* loop started.
C11_StartupOrder ==
  /\ pc = "exited" => failure # "none"
  /\ kaspadDialed <=> (Stage > 6 \/ (pc = "exited" /\ failure = "kaspad"))
  /\ redisPinged <=> (Stage > 7 \/ (pc = "exited" /\ failure = "redis"))
  /\ redisPinged => kaspadDialed
  /\ Launched <=> (pc # "exited" /\ Stage = 9)
  /\ Launched => redisPinged
  /\ ~Launched => /\ trace = <<>>
                  /\ bus = <<>>
                  /\ currentTemplate = NoTemplate
  /\ (pc = "exited" /\ failure = "redis") => ~Launched

C11_StartupSteps ==
  (pc' # pc /\ StageOfPc(pc) < 9) =>
    \/ pc' = "exited"
    \/ /\ StageOfPc(pc') = StageOfPc(pc) + 1
       /\ Launched' => (currentTemplate' = NoTemplate /\ trace' = <<>>)

C11_StartupOrdering ==
  /\ []C11_StartupOrder
  /\ [][C11_StartupSteps]_vars

C11_Witness ==
  /\ pc = "exited"
  /\ failure = "redis"
  /\ kaspadDialed
  /\ redisPinged
  /\ pollPc = "idle"

\* C12: the poll goroutine's write and the status loop's read exclude each
\* other: the two are never inside their critical sections together, the
\* mutex names the one that is inside, and what the status loop reads is
\* nil or the template of a completed write.
PollInCS == pollPc \in {"Store", "Unlock"}

StatusInCS == pc \in {"StatusCheck", "StatusUnlock"}

C12_NoPartialReads ==
  /\ ~(PollInCS /\ StatusInCS)
  /\ PollInCS => templateMutex = "poll"
  /\ StatusInCS => templateMutex = "status"
  /\ StatusInCS =>
       \/ currentTemplate = NoTemplate /\ Cached = <<>>
       \/ Cached # <<>> /\ currentTemplate = Cached[Len(Cached)].t

C12_Witness ==
  /\ pollPc = "Store"
  /\ pc = "StatusLock"
  /\ currentTemplate # NoTemplate
  /\ template # currentTemplate

\* C13: the poll goroutine does not hold the mutex while it is in the
\* GetBlockTemplate call, serializing, publishing or sleeping.
C13_NoLockOutsideCaching ==
  pollPc \in {"GetBlockTemplate", "SleepErr", "Marshal", "Publish", "Sleep"}
    => templateMutex # "poll"

C13_Witness ==
  /\ pollPc = "Sleep"
  /\ templateMutex = "status"
  /\ Cached # <<>>

\* C14: the status loop prints nothing while it holds the mutex; what a
\* tick prints, it prints after the Unlock.
C14_NoOutputUnderLock ==
  templateMutex = "status" => emitted = "none"

\* C15: a step of the status loop leaves the cache, the poll goroutine's
\* position and locals, the record of its calls and the bus as they are.
StatusStep == Launched /\ pc' # pc

C15_StatusReadOnly ==
  [][StatusStep => /\ currentTemplate' = currentTemplate
                   /\ trace' = trace
                   /\ bus' = bus
                   /\ pollPc' = pollPc
                   /\ template' = template
                   /\ templateJSON' = templateJSON]_vars

C15_Witness ==
  /\ pc = "StatusUnlock"
  /\ currentTemplate # NoTemplate
  /\ bus # <<>>
  /\ pollPc = "Publish"

\* C16: a tick emits exactly one diagnostic, the template
\* diagnostic when the cache is populated and the "no template yet" line
\* when it is empty.
C16_OneDiagnosticPerTick ==
  pc = "StatusUnlock" =>
    emitted = IF currentTemplate # NoTemplate THEN "template"
              ELSE "No block template fetched yet."

\* C17: a GetBlockTemplate call that returns an error leaves the cache and
\* the bus as they were and takes the goroutine to the sleep; in a cycle
\* whose call failed nothing is stored, serialized or published.
FetchFails == trace' = Append(trace, FetchEv(NoTemplate))

C17_FailedCycleQuiet ==
  LET f == LastFetchIdx
  IN  (f > 0 /\ ~trace[f].ok) =>
        /\ \A i \in (f + 1)..Len(trace) : IsSleep(trace[i])
        /\ Len(trace) <= f + 1
        /\ pollPc \in {"SleepErr", "GetBlockTemplate"}

C17_FailedFetchFrame ==
  /\ []C17_FailedCycleQuiet
  /\ [][FetchFails => /\ currentTemplate' = currentTemplate
                      /\ bus' = bus
                      /\ templateJSON' = templateJSON
                      /\ templateMutex' = templateMutex
                      /\ pollPc' = "SleepErr"]_vars

C17_Witness ==
  /\ pollPc = "SleepErr"
  /\ currentTemplate # NoTemplate
  /\ bus # <<>>
  /\ ~LastEv.ok

\* C18: when Publish is invoked its payload is the serialization of the
\* template fetched in this cycle, which is the value in the cache; a cycle
\* has at most one Publish call and only after a successful fetch; the bus
\* holds the payloads of the successful Publish calls, in order.
IsPublish(e)   == e.ev = "publish"
IsPublishOk(e) == e.ev = "publish" /\ e.ok

PublishedOk == SelectSeq(trace, IsPublishOk)

\* The GetBlockTemplate call of the cycle that step i belongs to.
FetchBefore(i) ==
  CHOOSE f \in 1..(i - 1) :
    IsFetch(trace[f]) /\ \A g \in (f + 1)..(i - 1) : ~IsFetch(trace[g])

\* The template carried by a payload on the bus.
PayloadTemplate(b) == b[2]

C18_PublishProvenance ==
  /\ pollPc = "Publish" =>
       /\ LastFetchIdx > 0
       /\ trace[LastFetchIdx].ok
       /\ template = trace[LastFetchIdx].t
       /\ currentTemplate = template
       /\ Len(templateJSON) = 2
       /\ PayloadTemplate(templateJSON) = template
  /\ \A i \in DOMAIN trace :
       IsPublish(trace[i]) =>
         /\ \E f \in 1..(i - 1) : IsFetch(trace[f])
         /\ LET f == FetchBefore(i)
            IN  /\ trace[f].ok
                /\ trace[i].t = trace[f].t
                /\ \A j \in (f + 1)..(i - 1) : ~IsPublish(trace[j])
  /\ Len(bus) = Len(PublishedOk)
  /\ \A i \in DOMAIN bus :
       /\ bus[i][1] = "json"
       /\ PayloadTemplate(bus[i]) = PublishedOk[i].t

C18_Witness ==
  /\ Len(bus) = 2
  /\ PayloadTemplate(bus[1]) # PayloadTemplate(bus[2])
  /\ ~trace[1].ok
  /\ currentTemplate = PayloadTemplate(bus[2])

\* C19: the mutex is held by the poll goroutine exactly between its Lock
\* and its Unlock and by the status loop exactly between its Lock and its
\* Unlock, so neither sleeps, starts an iteration or locks again while
\* holding it; the two are never both waiting for a mutex that is taken;
\* and whoever waits can go on as soon as the holder has unlocked.
PollWaiting == pollPc = "Lock"

StatusWaiting == pc = "StatusLock"

C19_LockDiscipline ==
  /\ templateMutex = "poll" <=> pollPc \in {"Store", "Unlock"}
  /\ templateMutex = "status" <=> pc \in {"StatusCheck", "StatusUnlock"}
  /\ ~(PollWaiting /\ StatusWaiting /\ templateMutex # "free")
  /\ (PollWaiting /\ templateMutex # "free") =>
       ENABLED StatusUnlock \/ ENABLED StatusCheck
  /\ (StatusWaiting /\ templateMutex # "free") =>
       ENABLED PollUnlock \/ ENABLED PollStore
  /\ Launched => ENABLED (StatusSleep \/ StatusLock \/ StatusCheck
                          \/ StatusUnlock \/ PollLock \/ PollStore
                          \/ PollUnlock)

C19_Witness ==
  /\ PollWaiting
  /\ templateMutex = "status"
  /\ pc = "StatusUnlock"
  /\ Len(Cached) = 1

\* C20: under fair scheduling a status tick that asks for the mutex gets to
\* its read, a poll cycle that asks for the mutex gets to its write,
\* wherever the other one is, and once a GetBlockTemplate call has
\* succeeded the cache becomes non-empty and a status tick reads a template.
C20_NoStarvation ==
  /\ StatusWaiting ~> (pc = "StatusCheck")
  /\ PollWaiting ~> (pollPc = "Unlock")
  /\ (FetchedOk # <<>>) ~> (pc = "StatusCheck" /\ currentTemplate # NoTemplate)

C20_Witness ==
  /\ pc = "StatusCheck"
  /\ currentTemplate # NoTemplate
  /\ PollWaiting
  /\ Len(Cached) = 2
====
